---------------------------- MODULE Spec2Model ----------------------------
(* A model of postgrest_py's synchronous client and request builders:       *)
(*   src/postgrest_py/_sync/client.py           SyncPostgrestClient         *)
(*   src/postgrest_py/_sync/request_builder.py  Sync*RequestBuilder         *)
(* (the asynchronous client differs from the synchronous one only in its    *)
(* await points).  The heap is modelled explicitly: sessions, request       *)
(* builders and query builders are objects with an identity (their index),  *)
(* and a builder holds the index of its session, as the Python objects hold *)
(* a reference.  base_request_builder.py, exceptions.py and utils.py are    *)
(* not part of the sources at hand; pre_select .. pre_delete, the filter    *)
(* methods and APIResponse.from_http_request_response are modelled from the *)
(* specification's sections 4.1, 4.2 and 4.4.                               *)
EXTENDS Naturals, Sequences, FiniteSets

VARIABLES
    sessions,   \* the heap of httpx sessions; sessions[1] is the client's own
    rbs,        \* the request builders returned by from_/table/from_model
    qbs,        \* the query builders returned by the operation methods
    last,       \* the most recent call: what was called, with what, and how it ended
    nCalls      \* the calls made so far that made a builder or a query parameter

vars == <<sessions, rbs, qbs, last, nCalls>>

-----------------------------------------------------------------------------
(* Bounds of the model. *)

MaxCalls == 4       \* calls that make a builder or add a query parameter
MaxClientCalls == 3 \* the same, in the runs that also exercise the client

-----------------------------------------------------------------------------
(* Values. *)

None == "None"

ClientSession == 1

Tables == {"t"}

\* A pydantic model class: its __name__ and its __table_name__ class variable.
Models == { [name |-> "City", table_name |-> "t"] }

\* The row types execute validates against: Dict[str, Any] (the default of the
\* untyped execute), the module-level TypeVar _T, or a model's name.
DictStrAny == "Dict[str, Any]"
TypeVarT == "_T"

HeaderNames == {"apikey", "Prefer"}

\* A header's value is a sequence of <<name, value>> directives; <<>> is an
\* absent header.
DefaultHeaders ==
    [h \in HeaderNames |-> IF h = "apikey" THEN <<<<"key", "secret">>>> ELSE <<>>]

ColumnLists == { <<"a", "b">> }
CountMethods == { "exact" }
ReturnMethods == { "representation" }
Jsons == { "row" }
UpsertFlags == { FALSE }
FilterOperators == { "eq", "gt" }
FilterColumns == { "x" }
FilterCriteria == { "1" }

\* What the transport does with a request: it fails (a network, timeout or
\* connection failure), or it returns one of these responses:
\*   "rows"       200, a JSON array of rows that every row type accepts
\*   "other rows" 200, a JSON array of rows that no model accepts
\*   "not found"  404, the JSON object {"message": "not found"}
\*   "malformed"  500, a body that is not JSON
Responses == { "rows", "other rows", "not found", "malformed" }

TransportFailure == "failure"

TransportOutcomes == Responses \cup {TransportFailure}

Failed(r) == r = TransportFailure
Status(r) == IF r = "not found" THEN 404 ELSE IF r = "malformed" THEN 500 ELSE 200
Decodes(r) == r \in {"rows", "other rows", "not found"}
IsRows(r) == r \in {"rows", "other rows"}
Message(r) == IF r = "not found" THEN "not found" ELSE None

\* Whether every row of the decoded body validates against the row type:
\* Dict[str, Any] and the TypeVar _T (bound to BaseModel, which declares no
\* field) accept any row, a model accepts the rows that fit it.
Validates(model, r) ==
    IF model \in {DictStrAny, TypeVarT} THEN IsRows(r) ELSE r = "rows"

\* How a call ends.
Returned(data) == [kind |-> "returned", exc |-> None, message |-> None, data |-> data]
Raised(exc, message) == [kind |-> "raised", exc |-> exc, message |-> message, data |-> None]

\* A call: the method called, the builders it was called on (by index), for
\* execute the row type, the transport's outcome and the requests handed to
\* the transport, how the call ended, and whether it repeats the call before
\* it (an execute right after an execute of the same builder).
CallRecord(op, rb, qb, model, t, reqs, result, again) ==
    [op |-> op, rb |-> rb, qb |-> qb, model |-> model, t |-> t, reqs |-> reqs,
     result |-> result, again |-> again]

NoCall == CallRecord("init", 0, 0, None, TransportFailure, <<>>, Returned(None), FALSE)

\* A call of a builder method, which involves no transport.
Call(op, rb, qb) ==
    CallRecord(op, rb, qb, None, TransportFailure, <<>>, Returned(None), FALSE)

-----------------------------------------------------------------------------
(* The session: httpx's client, as far as the builders use it. *)

\* SyncClient(base_url=..., headers=..., timeout=...): an open session with
\* no query parameters and no auth yet.
create_session(base_url, headers, timeout) ==
    [base_url |-> base_url, headers |-> headers, timeout |-> timeout,
     auth |-> None, params |-> <<>>, closed |-> FALSE]

\* The client's own session, as BasePostgrestClient.__init__ leaves it.
InitialClientSession ==
    [create_session("http://api", DefaultHeaders, 5) EXCEPT !.auth = "basic"]

SetHeader(s, name, value) == [s EXCEPT !.headers = [@ EXCEPT ![name] = value]]
AddParam(s, key, value) == [s EXCEPT !.params = Append(@, <<key, value>>)]


-----------------------------------------------------------------------------
(* base_request_builder.py, from the specification (4.1, 4.2): each pre_*   *)
(* writes the operation's query parameters and Prefer header to the session *)
(* it is given and returns the HTTP method and the body.                    *)

Directives(returning, count, resolution) ==
    <<<<"return", returning>>>>
    \o (IF count # None THEN <<<<"count", count>>>> ELSE <<>>)
    \o (IF resolution # None THEN <<<<"resolution", resolution>>>> ELSE <<>>)

pre_select(s, columns, count) ==
    [session |-> LET p == AddParam(s, "select", columns)
                 IN  IF count # None
                     THEN SetHeader(p, "Prefer", <<<<"count", count>>>>)
                     ELSE p,
     method |-> "GET", json |-> None]

pre_insert(s, json, count, returning, upsert) ==
    [session |-> SetHeader(s, "Prefer",
                    Directives(returning, count,
                               IF upsert THEN "merge-duplicates" ELSE None)),
     method |-> "POST", json |-> json]

pre_upsert(s, json, count, returning, ignore_duplicates) ==
    [session |-> SetHeader(s, "Prefer",
                    Directives(returning, count,
                               IF ignore_duplicates THEN "ignore-duplicates"
                                                    ELSE "merge-duplicates")),
     method |-> "POST", json |-> json]

pre_update(s, json, count, returning) ==
    [session |-> SetHeader(s, "Prefer", Directives(returning, count, None)),
     method |-> "PATCH", json |-> json]

pre_delete(s, count, returning) ==
    [session |-> SetHeader(s, "Prefer", Directives(returning, count, None)),
     method |-> "DELETE", json |-> None]

\* BaseFilterRequestBuilder.filter: column=operator.criteria, appended.
filter(s, column, operator, criteria) == AddParam(s, column, <<operator, criteria>>)

\* BaseSelectRequestBuilder.order: order=column.asc|desc, appended.
order(s, column, desc) == AddParam(s, "order", <<column, IF desc THEN "desc" ELSE "asc">>)

\* BaseSelectRequestBuilder.range: offset and limit, appended.
range(s, start, end) == AddParam(s, "range", <<start, end>>)

-----------------------------------------------------------------------------
(* client.py *)

\* table_name = getattr(model, "__table_name__", model.__name__)
TableNameOf(model) == IF model.table_name # None THEN model.table_name ELSE model.name

\* A variant of PathOf: the path of a stored procedure, as rpc builds it.
PathOf_Rpc(table_name) == <<"/rpc/", table_name>>

\* f"/{table_name}"
PathOf(table_name) == <<"/", table_name>>

\* A variant of ClonedSession: the new session is built from the default
\* headers, not from the headers the client holds now.
ClonedSession_Defaults(client) ==
    [create_session(client.base_url, DefaultHeaders, client.timeout)
        EXCEPT !.auth = client.auth]

\* _pre_table_op: a new session holding a copy of the client session's base
\* URL, headers and timeout, then given the client session's auth.
ClonedSession(client) ==
    [create_session(client.base_url, client.headers, client.timeout)
        EXCEPT !.auth = client.auth]

\* A variant of BuilderSession: the builder is handed the client's own session
\* (return self.session, f"/{table_name}").
BuilderSession_Shared == ClientSession

\* The session a new request builder holds: the one _pre_table_op has just
\* created (the next free place of the heap), not the client's.
BuilderSession == Len(sessions) + 1

\* SyncRequestBuilder.__init__ / _SyncModelRequestBuilder: session and path.
\* `class' tells the typed replica from the untyped builder; `table' and
\* `model' record the argument of the call that made it.
SyncRequestBuilder(session, path, class, table, model) ==
    [session |-> session, path |-> path, class |-> class,
     table |-> table, model |-> model]

\* from_(table), and its aliases table(table) and from_table(table).
From(table) ==
    /\ nCalls < MaxCalls
    /\ nCalls' = nCalls + 1
    /\ sessions' = Append(sessions, ClonedSession(sessions[ClientSession]))
    /\ rbs' = Append(rbs, SyncRequestBuilder(BuilderSession, PathOf(table),
                                             "untyped", table, None))
    /\ last' = Call("from_", Len(rbs) + 1, 0)
    /\ UNCHANGED qbs

\* from_model(model)
FromModel(model) ==
    /\ nCalls < MaxCalls
    /\ nCalls' = nCalls + 1
    /\ sessions' = Append(sessions, ClonedSession(sessions[ClientSession]))
    /\ rbs' = Append(rbs, SyncRequestBuilder(BuilderSession, PathOf(TableNameOf(model)),
                                             "typed", TableNameOf(model), model.name))
    /\ last' = Call("from_model", Len(rbs) + 1, 0)
    /\ UNCHANGED qbs


-----------------------------------------------------------------------------
(* request_builder.py: the operation methods *)

\* A variant of SyncQueryRequestBuilder: the query builder keeps the client's
\* session instead of the one it is given.
SyncQueryRequestBuilder_ClientSession(session, path, http_method, json) ==
    [session |-> ClientSession, path |-> path, http_method |-> http_method,
     json |-> json]

\* SyncQueryRequestBuilder.__init__ (and, through it, the filter and select
\* builders' __init__): the four attributes of a query builder.
SyncQueryRequestBuilder(session, path, http_method, json) ==
    [session |-> session, path |-> path, http_method |-> http_method, json |-> json]

\* A query builder on the heap: its attributes, its class (`kind': query,
\* filter or select; `class': the typed replica or not), and the call that
\* made it (`rb': the request builder, `op': the operation, `arg': the body
\* the caller passed).
QueryObject(q, kind, class, rb, op, arg) ==
    [session |-> q.session, path |-> q.path, http_method |-> q.http_method,
     json |-> q.json, kind |-> kind, class |-> class, rb |-> rb, op |-> op,
     arg |-> arg]

\* The common shape of select, insert, upsert, update and delete:
\*     method, json = pre_X(self.session, ...)
\*     return XRequestBuilder(self.session, self.path, method, json)
Operation(i, op, pre, kind, arg) ==
    /\ nCalls < MaxCalls
    /\ nCalls' = nCalls + 1
    /\ sessions' = [sessions EXCEPT ![rbs[i].session] = pre.session]
    /\ qbs' = Append(qbs,
                 QueryObject(SyncQueryRequestBuilder(rbs[i].session, rbs[i].path,
                                                     pre.method, pre.json),
                             kind, rbs[i].class, i, op, arg))
    /\ last' = Call(op, i, Len(qbs) + 1)
    /\ UNCHANGED rbs

Select(i) ==
    \E columns \in ColumnLists, count \in CountMethods :
        Operation(i, "select",
                  pre_select(sessions[rbs[i].session], columns, count),
                  "select", None)

\* A variant of Insert: insert returns a filter builder, as update does.
Insert_Filterable(i) ==
    \E json \in Jsons, count \in CountMethods, returning \in ReturnMethods,
       upsert \in UpsertFlags :
        Operation(i, "insert",
                  pre_insert(sessions[rbs[i].session], json, count, returning, upsert),
                  "filter", json)

Insert(i) ==
    \E json \in Jsons, count \in CountMethods, returning \in ReturnMethods,
       upsert \in UpsertFlags :
        Operation(i, "insert",
                  pre_insert(sessions[rbs[i].session], json, count, returning, upsert),
                  "query", json)

Upsert(i) ==
    \E json \in Jsons, count \in CountMethods, returning \in ReturnMethods,
       ignore_duplicates \in UpsertFlags :
        Operation(i, "upsert",
                  pre_upsert(sessions[rbs[i].session], json, count, returning,
                             ignore_duplicates),
                  "query", json)

Update(i) ==
    \E json \in Jsons, count \in CountMethods, returning \in ReturnMethods :
        Operation(i, "update",
                  pre_update(sessions[rbs[i].session], json, count, returning),
                  "filter", json)

Delete(i) ==
    \E count \in CountMethods, returning \in ReturnMethods :
        Operation(i, "delete",
                  pre_delete(sessions[rbs[i].session], count, returning),
                  "filter", None)

-----------------------------------------------------------------------------
(* The chained calls of the filter and select builders (BaseFilterRequest-   *)
(* Builder.__init__(self, session): they act on the builder's session).      *)

Chained(i, op, s) ==
    /\ nCalls < MaxCalls
    /\ nCalls' = nCalls + 1
    /\ sessions' = [sessions EXCEPT ![qbs[i].session] = s]
    /\ last' = Call(op, qbs[i].rb, i)
    /\ UNCHANGED <<rbs, qbs>>

Filter(i) ==
    /\ qbs[i].kind \in {"filter", "select"}
    /\ \E column \in FilterColumns, operator \in FilterOperators,
          criteria \in FilterCriteria :
            Chained(i, "filter",
                    filter(sessions[qbs[i].session], column, operator, criteria))

Order(i) ==
    /\ qbs[i].kind = "select"
    /\ Chained(i, "order", order(sessions[qbs[i].session], "a", FALSE))

Range(i) ==
    /\ qbs[i].kind = "select"
    /\ Chained(i, "range", range(sessions[qbs[i].session], "0", "9"))


-----------------------------------------------------------------------------
(* request_builder.py: execute *)

\* The request session.request(self.http_method, self.path, json=self.json)
\* builds: the builder's method, path and body, with the query parameters and
\* headers the session holds at that moment.
Request(q) ==
    [method |-> q.http_method, path |-> q.path, json |-> q.json,
     params |-> sessions[q.session].params,
     headers |-> sessions[q.session].headers]

\* A variant of RequestsOf: execute sends the request again when the first
\* attempt fails or is answered with an error status.
RequestsOf_Retry(q, r) ==
    IF Failed(r) \/ Status(r) >= 400 THEN << Request(q), Request(q) >>
    ELSE << Request(q) >>

\* The requests one invocation of execute hands to the transport.
RequestsOf(q, r) == << Request(q) >>

\* A variant of SessionAfterExecute: execute clears the query parameters it
\* has sent.
SessionAfterExecute_Reset(s) == [s EXCEPT !.params = << >>]

\* What execute leaves of the session it used: execute assigns nothing.
SessionAfterExecute(s) == s

\* r.json(): the decoded body, or json's JSONDecodeError.
json(r) ==
    IF Decodes(r) THEN Returned(r) ELSE Raised("JSONDecodeError", None)

\* exceptions.py, from the specification (3, 4.4): an APIError takes its
\* message from the decoded body; a body without one gives a null message.
APIError(r) == Raised("APIError", Message(r))

\* APIResponse[model].from_http_request_response(r), from the specification
\* (4.4): the body is decoded; a body that does not decode and a status of 400
\* or more are failures; the rows are then validated against the row type.
from_http_request_response(model, r) ==
    IF ~Decodes(r) THEN Raised("JSONDecodeError", None)
    ELSE IF Status(r) >= 400 THEN Raised("ValueError", None)
    ELSE IF ~Validates(model, r) THEN Raised("ValidationError", None)
    ELSE Returned(r)

\* What `except ValueError' catches: ValueError and its subclasses, among them
\* json.JSONDecodeError and pydantic's ValidationError.
ValueError == {"ValueError", "JSONDecodeError", "ValidationError"}

\* A variant of execute: no except clause, the classifier's exception leaves
\* execute as it is.
execute_Reraise(model, r) ==
    IF Failed(r) THEN Raised("TransportError", None)
    ELSE from_http_request_response(model, r)

\* A variant of execute: session.request is inside the try and every
\* exception is turned into an APIError.
execute_WrapsTransport(model, r) ==
    IF Failed(r) THEN APIError(r)
    ELSE LET res == from_http_request_response(model, r)
         IN  IF res.kind = "raised" /\ res.exc \in ValueError
             THEN IF json(r).kind = "raised" THEN json(r) ELSE APIError(r)
             ELSE res

\* execute's result for the transport outcome r: session.request is outside
\* the try, so its exception leaves execute as it is; a ValueError of the
\* classifier is replaced by APIError(r.json()), whose argument is evaluated
\* first and may itself raise.
execute(model, r) ==
    IF Failed(r) THEN Raised("TransportError", None)
    ELSE LET res == from_http_request_response(model, r)
         IN  IF res.kind = "raised" /\ res.exc \in ValueError
             THEN IF json(r).kind = "raised" THEN json(r) ELSE APIError(r)
             ELSE res

\* A variant of RowTypes: the typed replica validates against the model class
\* its request builder was made for.
RowTypes_Model(q) ==
    IF q.class = "typed" THEN {rbs[q.rb].model}
    ELSE {DictStrAny} \cup {m.name : m \in Models}

\* The row type: the model keyword of SyncQueryRequestBuilder.execute
\* (Dict[str, Any] unless the caller passes a model), and the TypeVar _T in
\* _SyncModelQueryRequestBuilder.execute, which takes no keyword.
RowTypes(q) ==
    IF q.class = "typed" THEN {TypeVarT} ELSE {DictStrAny} \cup {m.name : m \in Models}

\* The executions explored: every transport outcome under the builder's
\* default row type, and a model where the response carries rows.
ExecuteInputs(q) ==
    { x \in RowTypes(q) \X TransportOutcomes :
        x[1] \in {DictStrAny, TypeVarT} \/ IsRows(x[2]) }

Execute(i) ==
    /\ \E x \in ExecuteInputs(qbs[i]) :
        LET model == x[1]
            r == x[2]
        IN  last' = CallRecord("execute", qbs[i].rb, i, model, r,
                               RequestsOf(qbs[i], r), execute(model, r),
                               last.op = "execute" /\ last.qb = i)
    /\ sessions' = [sessions EXCEPT ![qbs[i].session] = SessionAfterExecute(@)]
    /\ UNCHANGED <<rbs, qbs, nCalls>>

-----------------------------------------------------------------------------

Init ==
    /\ sessions = << InitialClientSession >>
    /\ rbs = << >>
    /\ qbs = << >>
    /\ last = NoCall
    /\ nCalls = 0

Next ==
    \/ \E table \in Tables : From(table)
    \/ \E model \in Models : FromModel(model)
    \/ \E i \in DOMAIN rbs : Select(i)
    \/ \E i \in DOMAIN rbs : Insert(i)
    \/ \E i \in DOMAIN rbs : Upsert(i)
    \/ \E i \in DOMAIN rbs : Update(i)
    \/ \E i \in DOMAIN rbs : Delete(i)
    \/ \E i \in DOMAIN qbs : Filter(i)
    \/ \E i \in DOMAIN qbs : Order(i)
    \/ \E i \in DOMAIN qbs : Range(i)
    \/ \E i \in DOMAIN qbs : Execute(i)

Spec == Init /\ [][Next]_vars

-----------------------------------------------------------------------------
(* client.py: the calls on the client itself -- rpc, aclose, the context     *)
(* manager -- and a change of the client's headers after construction.       *)

RpcFunctions == { "f" }
RpcParams == { "args" }
ExcTypes == { None, "Exception" }

\* The api keys a client is given after its construction.
RotatedKeys == { "rotated" }

\* A call on the client: as CallRecord, with the call's arguments.
ClientCall(op, args, t, reqs, result) ==
    [op |-> op, rb |-> 0, qb |-> 0, model |-> None, t |-> t, reqs |-> reqs,
     result |-> result, again |-> FALSE, args |-> args]

\* The client's headers are changed after construction (BasePostgrestClient's
\* auth and schema, or the caller, write self.session.headers).
SetClientHeader(key) ==
    /\ sessions' = [sessions EXCEPT
                       ![ClientSession] = SetHeader(@, "apikey", <<<<"key", key>>>>)]
    /\ last' = ClientCall("set_header", <<key>>, TransportFailure, << >>, Returned(None))
    /\ UNCHANGED <<rbs, qbs, nCalls>>

\* A variant of RpcPath: the function's name is used as a table path.
RpcPath_Table(func) == <<"/", func>>

\* path = f"/rpc/{func}"
RpcPath(func) == <<"/rpc/", func>>

\* self.session.post(path, json=params): a POST on the client's own session.
RpcRequest(func, params) ==
    [method |-> "POST", path |-> RpcPath(func), json |-> params,
     params |-> sessions[ClientSession].params,
     headers |-> sessions[ClientSession].headers]

\* The requests rpc hands to the transport: a closed httpx client refuses to
\* send.
RpcRequestsOf(func, params) ==
    IF sessions[ClientSession].closed THEN << >> ELSE << RpcRequest(func, params) >>

\* rpc's result: the response as the transport returned it, or the exception
\* of the closed client or of the transport.
rpc(r) ==
    IF sessions[ClientSession].closed THEN Raised("RuntimeError", None)
    ELSE IF Failed(r) THEN Raised("TransportError", None)
    ELSE Returned(r)

Rpc(func, params) ==
    /\ \E r \in TransportOutcomes :
         last' = ClientCall("rpc", <<func, params>>, r,
                            RpcRequestsOf(func, params), rpc(r))
    /\ UNCHANGED <<sessions, rbs, qbs, nCalls>>

\* A variant of SessionsAfterClose: closing the client closes every session
\* made from it.
SessionsAfterClose_All ==
    [s \in DOMAIN sessions |-> [sessions[s] EXCEPT !.closed = TRUE]]

\* self.session.aclose(): the client's own session is closed.
SessionsAfterClose == [sessions EXCEPT ![ClientSession].closed = TRUE]

aclose ==
    /\ sessions' = SessionsAfterClose
    /\ last' = ClientCall("aclose", << >>, TransportFailure, << >>, Returned(None))
    /\ UNCHANGED <<rbs, qbs, nCalls>>

\* __exit__(exc_type, exc, tb): self.aclose(), whether the block raised or
\* not; it returns None, so an exception of the block propagates.
exit(exc_type) ==
    /\ sessions' = SessionsAfterClose
    /\ last' = ClientCall("__exit__", <<exc_type>>, TransportFailure, << >>,
                          Returned(None))
    /\ UNCHANGED <<rbs, qbs, nCalls>>

\* The builders' calls, up to MaxClientCalls of them.
BuilderNext == Next /\ nCalls' <= MaxClientCalls

NextClient ==
    \/ BuilderNext
    \/ \E key \in RotatedKeys : SetClientHeader(key)
    \/ \E func \in RpcFunctions, params \in RpcParams : Rpc(func, params)
    \/ aclose
    \/ \E exc_type \in ExcTypes : exit(exc_type)

SpecClient == Init /\ [][NextClient]_vars


-----------------------------------------------------------------------------
(* _async/client.py: what AsyncPostgrestClient's methods build, as functions *)
(* of the client's session and of their arguments.                           *)

\* AsyncPostgrestClient.create_session: AsyncClient(base_url=..., headers=...,
\* timeout=...).
Async_create_session(base_url, headers, timeout) ==
    [base_url |-> base_url, headers |-> headers, timeout |-> timeout,
     auth |-> None, params |-> <<>>, closed |-> FALSE]

\* AsyncPostgrestClient._pre_table_op: the new session and f"/{table_name}".
Async_pre_table_op(client, table_name) ==
    [session |-> [Async_create_session(client.base_url, client.headers,
                                       client.timeout)
                     EXCEPT !.auth = client.auth],
     path |-> <<"/", table_name>>]

\* A variant of Async_from_: the builder's path is the table name alone.
Async_from_NoSlash(client, table) ==
    [session |-> Async_pre_table_op(client, table).session,
     path |-> <<table>>, class |-> "untyped"]

\* AsyncPostgrestClient.from_ (and table, from_table):
\*     session, path = self._pre_table_op(table)
\*     return AsyncRequestBuilder(session, f"/{table}")
Async_from_(client, table) ==
    [session |-> Async_pre_table_op(client, table).session,
     path |-> <<"/", table>>, class |-> "untyped"]

\* AsyncPostgrestClient.from_model:
\*     table_name = getattr(model, "__table_name__", model.__name__)
\*     session, path = self._pre_table_op(table_name)
\*     return _AsyncModelRequestBuilder[model](session, path)
Async_from_model(client, model) ==
    LET table_name == IF model.table_name # None THEN model.table_name
                                                 ELSE model.name
        pre == Async_pre_table_op(client, table_name)
    IN  [session |-> pre.session, path |-> pre.path, class |-> "typed"]

\* AsyncPostgrestClient.rpc: await self.session.post(f"/rpc/{func}", json=params)
Async_rpc(client, func, params) ==
    [method |-> "POST", path |-> <<"/rpc/", func>>, json |-> params,
     params |-> client.params, headers |-> client.headers]

-----------------------------------------------------------------------------
(* Properties *)

ChainedMethods == {"filter", "order", "range"}

\* The HTTP method of each operation.
MethodOf(op) ==
    CASE op = "select" -> "GET"
      [] op \in {"insert", "upsert"} -> "POST"
      [] op = "update" -> "PATCH"
      [] op = "delete" -> "DELETE"

\* C1: once an operation method has been called on a request builder, a
\* second operation call on that builder is rejected: no request builder
\* ever yields two query builders.
C1_SecondOperationRejected ==
    \A i, j \in DOMAIN qbs : qbs[i].rb = qbs[j].rb => i = j

\* C2: every request builder has a session of its own, which is neither the
\* client's nor another builder's; a call on one chain (a request builder and
\* the query builders made from it) leaves the session of every other request
\* builder and the pending request of every other chain's query builder as
\* they were; and the request execute sends carries the query parameters and
\* headers of its own chain's session.
C2_ChainsIsolated ==
    [][ /\ \A i \in DOMAIN rbs' :
             /\ rbs'[i].session # ClientSession
             /\ \A j \in DOMAIN rbs' : rbs'[j].session = rbs'[i].session => j = i
        /\ \A i \in DOMAIN rbs :
             i # last'.rb => sessions'[rbs[i].session] = sessions[rbs[i].session]
        /\ \A k \in DOMAIN qbs :
             qbs[k].rb # last'.rb => Request(qbs[k])' = Request(qbs[k])
        /\ last'.op = "execute" =>
             \A n \in DOMAIN last'.reqs :
                /\ last'.reqs[n].params = sessions[rbs[last'.rb].session].params
                /\ last'.reqs[n].headers = sessions[rbs[last'.rb].session].headers
      ]_vars

\* Two chains that have accumulated different query parameters and different
\* headers, one of which has just been executed.
C2_Witness ==
    \E i, j \in DOMAIN qbs :
        /\ qbs[i].rb # qbs[j].rb
        /\ last.op = "execute" /\ last.qb = i
        /\ Request(qbs[j]).headers["Prefer"] # << >>
        /\ last.reqs[1].params # Request(qbs[j]).params
        /\ last.reqs[1].headers # Request(qbs[j]).headers

\* C3: a call that builds a query hands no request to the transport, and an
\* invocation of execute hands it exactly one, however the transport answers.
C3_OneRequestPerExecute ==
    /\ last.op = "execute" => Len(last.reqs) = 1
    /\ last.op # "execute" => last.reqs = << >>

\* An execute answered with an error status, after a chained call.
C3_Witness ==
    /\ last.op = "execute"
    /\ Status(last.t) = 404
    /\ Len(last.reqs) = 1
    /\ Len(last.reqs[1].params) > 1

\* C4: when the response has an error status and its body is a JSON object,
\* execute raises an APIError whose message is the body's message field.
C4_ErrorStatusRaisesAPIError ==
    ( /\ last.op = "execute"
      /\ ~Failed(last.t)
      /\ Status(last.t) >= 400
      /\ Decodes(last.t) /\ ~IsRows(last.t) )
    => last.result = Raised("APIError", Message(last.t))

\* An execute answered with 404 and {"message": "not found"}.
C4_Witness ==
    /\ last.op = "execute"
    /\ last.t = "not found"
    /\ last.result.exc = "APIError"
    /\ last.result.message = "not found"

\* C5: when the response body does not decode as JSON, execute raises an
\* APIError.
C5_MalformedBodyRaisesAPIError ==
    (last.op = "execute" /\ ~Failed(last.t) /\ ~Decodes(last.t))
    => last.result.exc = "APIError"

\* C6: when the response decodes and a row fails validation against the
\* caller's model, execute raises a ValidationError, not an APIError.
C6_ValidationErrorDistinct ==
    ( /\ last.op = "execute"
      /\ ~Failed(last.t)
      /\ Decodes(last.t) /\ Status(last.t) < 400
      /\ ~Validates(last.model, last.t) )
    => last.result.exc = "ValidationError"

\* C7: when the transport fails, execute ends with the transport's own error,
\* and has handed the transport one request.
C7_TransportErrorPropagates ==
    (last.op = "execute" /\ Failed(last.t))
    => (last.result = Raised("TransportError", None) /\ Len(last.reqs) = 1)

\* An execute whose transport call failed.
C7_Witness ==
    /\ last.op = "execute"
    /\ Failed(last.t)
    /\ last.result.exc = "TransportError"

\* C8: execute changes no builder and no session, and an execute that follows
\* an execute of the same builder sends the same request.
C8_ExecuteTwiceIdentical ==
    [][ /\ last'.op = "execute" =>
             (sessions' = sessions /\ rbs' = rbs /\ qbs' = qbs)
        /\ (last.op = "execute" /\ last'.op = "execute" /\ last'.qb = last.qb)
             => last'.reqs = last.reqs
      ]_vars

\* A second execute in a row on a builder with a chained call.
C8_Witness ==
    /\ last.op = "execute"
    /\ last.again
    /\ Len(last.reqs) = 1
    /\ Len(last.reqs[1].params) > 1

\* C9: once execute has been invoked on a query builder, a filter, order or
\* range call on that builder does not change the request the builder would
\* send (stated for the call that follows the execute).
C9_PendingQueryImmutable ==
    [][ \A k \in DOMAIN qbs :
            ( /\ last.op = "execute" /\ last.qb = k
              /\ last'.op \in ChainedMethods /\ last'.qb = k )
            => Request(qbs[k])' = Request(qbs[k])
      ]_vars

\* C10: a query builder's method is the one of the operation that made it,
\* its path is / followed by the table of its request builder and its body is
\* the one the operation was given, through every chained call; and the
\* request execute sends has that method, path and body.
C10_MethodAndPathFixed ==
    /\ \A k \in DOMAIN qbs :
        /\ qbs[k].http_method = MethodOf(qbs[k].op)
        /\ qbs[k].path = <<"/", rbs[qbs[k].rb].table>>
        /\ qbs[k].json = qbs[k].arg
    /\ last.op = "execute" =>
        \A n \in DOMAIN last.reqs :
            /\ last.reqs[n].method = MethodOf(qbs[last.qb].op)
            /\ last.reqs[n].path = <<"/", rbs[last.rb].table>>
            /\ last.reqs[n].json = qbs[last.qb].arg

\* An update with a chained filter, executed.
C10_Witness ==
    /\ last.op = "execute"
    /\ qbs[last.qb].op = "update"
    /\ Len(last.reqs) = 1
    /\ last.reqs[1].method = "PATCH"
    /\ last.reqs[1].params # << >>

\* C11: no sequence of from_, operation, filter, order, range and execute calls
\* changes the client's own session: its base URL, headers, timeout and auth
\* are those the client was constructed with.
C11_ClientConfigurationUnchanged ==
    /\ sessions[ClientSession].base_url = InitialClientSession.base_url
    /\ sessions[ClientSession].headers = InitialClientSession.headers
    /\ sessions[ClientSession].timeout = InitialClientSession.timeout
    /\ sessions[ClientSession].auth = InitialClientSession.auth

\* A chain that has written a Prefer header and query parameters to its own
\* session and has been executed, beside the client's untouched session.
C11_Witness ==
    /\ last.op = "execute"
    /\ sessions[qbs[last.qb].session].headers # sessions[ClientSession].headers
    /\ Len(sessions[qbs[last.qb].session].params) > 1
    /\ sessions[ClientSession].headers = DefaultHeaders

\* C12: the session of a builder returned by from_/from_model starts with the
\* base URL, headers, timeout and auth the client holds at that call, and a
\* later change of the client's headers leaves the session of every builder
\* made before it as it was.
C12_SessionIsSnapshot ==
    [][ /\ last'.op \in {"from_", "from_model"} =>
             LET s == sessions'[rbs'[last'.rb].session]
                 c == sessions[ClientSession]
             IN  /\ s.base_url = c.base_url
                 /\ s.headers = c.headers
                 /\ s.timeout = c.timeout
                 /\ s.auth = c.auth
        /\ last'.op = "set_header" =>
             \A i \in DOMAIN rbs :
                /\ rbs'[i] = rbs[i]
                /\ sessions'[rbs[i].session] = sessions[rbs[i].session]
      ]_vars

\* The client's api key was changed between two from_ calls: the earlier
\* builder has just sent a request with the old key, the later builder holds
\* the new one.
C12_Witness ==
    \E i, j \in DOMAIN rbs :
        /\ sessions[ClientSession].headers["apikey"] # DefaultHeaders["apikey"]
        /\ sessions[rbs[j].session].headers["apikey"]
              = sessions[ClientSession].headers["apikey"]
        /\ last.op = "execute" /\ last.rb = i
        /\ Len(last.reqs) = 1
        /\ last.reqs[1].headers["apikey"] = DefaultHeaders["apikey"]

C14_RowsParsedWithModel ==
    ( /\ last.op = "execute"
      /\ qbs[last.qb].class = "typed"
      /\ last.result.kind = "returned" )
    => Validates(rbs[last.rb].model, last.t)

\* C15: the builder that the synchronous from_ (table, from_table) or
\* from_model has just returned is the one the asynchronous client builds
\* from the same client session and the same argument: the same path
\* /{table}, the same class of builder, and a session of its own that is a
\* clone of the client's; and the request the synchronous rpc has just sent on
\* an open client is the one the asynchronous rpc sends.
C15_SyncAsyncSameBuilders ==
    /\ last.op = "from_" =>
         LET b == rbs[last.rb]
             a == Async_from_(sessions[ClientSession], b.table)
         IN  /\ b.path = a.path /\ b.class = a.class
             /\ sessions[b.session] = a.session
             /\ b.session # ClientSession
             /\ \A i \in DOMAIN rbs : rbs[i].session = b.session => i = last.rb
    /\ last.op = "from_model" =>
         LET b == rbs[last.rb]
         IN  \A model \in Models :
                model.name = b.model =>
                   LET a == Async_from_model(sessions[ClientSession], model)
                   IN  /\ b.path = a.path /\ b.class = a.class
                       /\ sessions[b.session] = a.session
                       /\ b.session # ClientSession
                       /\ \A i \in DOMAIN rbs :
                            rbs[i].session = b.session => i = last.rb
    /\ (last.op = "rpc" /\ ~sessions[ClientSession].closed) =>
         last.reqs = << Async_rpc(sessions[ClientSession],
                                  last.args[1], last.args[2]) >>

\* from_model has just returned a builder, on a client whose api key was
\* changed after construction and that already has another builder.
C15_Witness ==
    /\ last.op = "from_model"
    /\ last.rb > 1
    /\ sessions[ClientSession].headers["apikey"] # DefaultHeaders["apikey"]
    /\ rbs[last.rb].path = <<"/", "t">>
    /\ sessions[rbs[last.rb].session].headers = sessions[ClientSession].headers

\* C16: a call of rpc(func, params) makes no builder and changes no session;
\* on an open client it hands the transport exactly one request, a POST to
\* /rpc/{func} with params as its body and the client's headers, and when the
\* transport answers, rpc returns that response, whatever its status.
C16_RpcOnePost ==
    [][ last'.op = "rpc" =>
          /\ rbs' = rbs /\ qbs' = qbs /\ sessions' = sessions
          /\ ~sessions[ClientSession].closed =>
               /\ Len(last'.reqs) = 1
               /\ last'.reqs[1].method = "POST"
               /\ last'.reqs[1].path = <<"/rpc/", last'.args[1]>>
               /\ last'.reqs[1].json = last'.args[2]
               /\ last'.reqs[1].headers = sessions[ClientSession].headers
               /\ ~Failed(last'.t) => last'.result = Returned(last'.t)
      ]_vars

\* rpc has returned a 404 response as it is, on a client that has builders.
C16_Witness ==
    /\ last.op = "rpc"
    /\ Len(rbs) > 0 /\ Len(qbs) > 0
    /\ last.t = "not found"
    /\ last.result = Returned("not found")
    /\ Len(last.reqs) = 1

\* The class of the builder each operation returns: SyncQueryRequestBuilder,
\* SyncFilterRequestBuilder or SyncSelectRequestBuilder.
KindOf(op) ==
    CASE op \in {"insert", "upsert"} -> "query"
      [] op \in {"update", "delete"} -> "filter"
      [] op = "select" -> "select"

\* C17: the builder an operation returns is of the class of that operation;
\* a filter call is only ever made on a builder that select, update or delete
\* returned, an order or range call only on one that select returned; and an
\* operation method is called on a request builder and returns a new query
\* builder, never on a query builder.
C17_OnlyValidTransitions ==
    /\ \A k \in DOMAIN qbs : qbs[k].kind = KindOf(qbs[k].op)
    /\ last.op = "filter" => qbs[last.qb].op \in {"select", "update", "delete"}
    /\ last.op \in {"order", "range"} => qbs[last.qb].op = "select"
    /\ last.op \in {"select", "insert", "upsert", "update", "delete"} =>
         /\ last.rb \in DOMAIN rbs
         /\ last.qb = Len(qbs)
         /\ qbs[last.qb].op = last.op

\* A filter call on the builder delete returned, beside a builder insert
\* returned, on which no chained call can be made.
C17_Witness ==
    /\ last.op = "filter"
    /\ qbs[last.qb].op = "delete"
    /\ \E k \in DOMAIN qbs : qbs[k].op = "insert"
    /\ sessions[qbs[last.qb].session].params # << >>

\* C18: every query builder holds the session and the path of the request
\* builder whose operation method made it; so two query builders made from
\* one request builder would send the same query parameters and headers,
\* whichever operation or chained call wrote them.
C18_QueryBuildersShareSession ==
    /\ \A k \in DOMAIN qbs :
         /\ qbs[k].session = rbs[qbs[k].rb].session
         /\ qbs[k].path = rbs[qbs[k].rb].path
    /\ \A i, j \in DOMAIN qbs :
         qbs[i].rb = qbs[j].rb =>
            /\ Request(qbs[i]).params = Request(qbs[j]).params
            /\ Request(qbs[i]).headers = Request(qbs[j]).headers

\* select, then a filter on its result, then insert on the same request
\* builder: the insert's request carries the select's and the filter's query
\* parameters.
C18_Witness ==
    \E i, j \in DOMAIN qbs :
        /\ i < j
        /\ qbs[i].rb = qbs[j].rb
        /\ qbs[i].op = "select" /\ qbs[j].op = "insert"
        /\ last.op = "execute" /\ last.qb = j
        /\ last.reqs[1].method = "POST"
        /\ Len(last.reqs[1].params) = 2

\* C19: aclose and __exit__ (whether or not the block raised) close the
\* client's own session and leave every other session and every builder as
\* they were; no builder's session is ever closed; and execute on a builder of
\* a closed client hands its request to the transport as on an open one.
C19_CloseOnlyClientSession ==
    [][ /\ last'.op \in {"aclose", "__exit__"} =>
             /\ sessions'[ClientSession].closed
             /\ \A s \in DOMAIN sessions :
                  s # ClientSession => sessions'[s] = sessions[s]
             /\ rbs' = rbs /\ qbs' = qbs
        /\ \A i \in DOMAIN rbs' : ~sessions'[rbs'[i].session].closed
        /\ (last'.op = "execute" /\ sessions[ClientSession].closed) =>
             /\ last'.reqs = << Request(qbs[last'.qb]) >>
             /\ ~sessions[qbs[last'.qb].session].closed
      ]_vars

\* A builder's query has been executed and answered after the client was
\* closed.
C19_Witness ==
    /\ last.op = "execute"
    /\ sessions[ClientSession].closed
    /\ ~sessions[qbs[last.qb].session].closed
    /\ Len(last.reqs) = 1
    /\ last.result.kind = "returned"

=============================================================================
